---- MODULE Spec2Model ----
(***************************************************************************)
(* Model of the browser scripts of app/js/animate-elements.js: the         *)
(* graphic/content cycler (animateElements) and the mobile menu toggler    *)
(* (toggleMenu).  The browser event loop runs every callback to            *)
(* completion, so each handler is one atomic action.  A classList is a     *)
(* DOMTokenList: an ordered list of distinct tokens.                       *)
(* The module also models the evaluation of the Brocfile (the asset build  *)
(* pipeline), one action per group of statements, and the development      *)
(* server's init hook, which renders the documentation.  That              *)
(* documentation describes the HighRoller game: its contract (applyAction, *)
(* getTurnTaker, isStateTerminal) and the dapp that plays the first        *)
(* player; the module models both as the guide lists them.                 *)
(***************************************************************************)
EXTENDS Integers, Sequences, FiniteSets, TLC

VARIABLES
  graphic,        \* graphic[i] = [el |-> classList of the element, state |-> ...]
  content,        \* content[i] = [el |-> classList of the element, state |-> ...]
  mobileMenu,     \* classList of the '.mobile-menu' overlay
  timer,          \* "unset", "pending" (setTimeout called), "fired"
  listeners,      \* graphics whose element has the mouseover listener bound
  menuListeners,  \* buttons of the menu whose click listener is bound
  lastEvent,      \* <<kind, target>> of the callback or event processed last
  prevEvent,      \* the value of lastEvent before that
  lastClick,      \* the menu button whose click handler ran last, or "none"
  nEvents,        \* number of user events dispatched so far
  absent,         \* elements the page lacks: querySelector returned null
  uncaught,       \* the callbacks (as lastEvent values) that threw a TypeError
  \* The Brocfile.
  bpc,            \* the statements evaluated so far: "off", "start", ..., "exported"
  shellEnv,       \* process.env as the invoking shell set it
  dotenvFile,     \* the variables the local .env file defines
  appSource,      \* app/index.js as a list of tokens
  processEnv,     \* process.env of the build process
  replaceValues,  \* the <<pattern, text>> pairs given to the replace plugin
  pubFiles,       \* the trees of those names, as sets of files
  appScript,
  styles,
  exported,       \* module.exports
  \* The server's init hook.
  spc,            \* "off", "idle", "logging", "reading", "returned"
  appStack,       \* the middleware attached to the app, in order
  fileRead,       \* what reading docs/getting-started.md gives: ReadError or its lines
  fsRead,         \* the readFile request: "none", "pending", "done"
  consoleLog,     \* what the process has written to its log, in order
  crashed,        \* an exception was thrown out of a callback
  initResult,     \* what the init function returned: "none" until it has
  nRequests,      \* number of requests served so far
  \* The HighRoller game of the guide.
  appInstance,    \* "off", "none" (install proposed), "installed", "uninstalled"
  appState,       \* the AppState of the channel
  currentGame,    \* the dapp's currentGame: highRollerState.stage, playerFirstNumber
  rollBtn,        \* the roll button is enabled
  rollPc,         \* the await at which roll() is suspended: "idle", "start", "commit", "num"
  rollNumber,     \* the local const playerFirstNumber of roll()
  awaited,        \* the stage of the state the pending takeAction() resolves with
  completePc,     \* the await at which completeGame() is suspended
  updateEvents,   \* the updateState events not yet delivered, as their newState.stage
  actionLog,      \* the actions the channel accepted, in order
  nReverts,       \* number of actions applyAction reverted
  game,           \* number of the game being played
  typeErrors,     \* number of TypeErrors the dapp's handlers threw
  doneSeen        \* an updateState event reporting DONE was handled in this game

pageVars == <<graphic, content, mobileMenu, timer, listeners, menuListeners,
              lastEvent, prevEvent, lastClick, nEvents, absent, uncaught>>

buildVars == <<bpc, shellEnv, dotenvFile, appSource, processEnv, replaceValues,
               pubFiles, appScript, styles, exported>>

serverVars == <<spc, appStack, fileRead, fsRead, consoleLog, crashed, initResult,
                nRequests>>

gameVars == <<appInstance, appState, currentGame, rollBtn, rollPc, rollNumber,
              awaited, completePc, updateEvents, actionLog, nReverts, game,
              typeErrors, doneSeen>>

\* What the actions of the page, of the Brocfile, of the server and of the
\* game leave alone.
offPage == <<buildVars, serverVars, gameVars>>
offBuild == <<pageVars, serverVars, gameVars>>
offServer == <<pageVars, buildVars, gameVars>>
offGame == <<pageVars, buildVars, serverVars>>

vars == <<pageVars, buildVars, serverVars, gameVars>>

\* Number of user events (mouseover, click) a behaviour dispatches.
MaxEvents == 5

\* Largest number of elements a page of SpecDom lacks.
MaxAbsent == 1

\* Number of tokens of app/index.js.
MaxTokens == 2

\* Largest number of lines of the documentation file.
MaxLines == 3

\* Number of requests the server receives.
MaxRequests == 2

\* Largest number a player draws (the guide draws from 1..1000).
MaxNumber == 11

\* Number of actions that applyAction reverts in a behaviour.
MaxStray == 1

\* Number of games the dapp plays.
MaxGames == 2

Idx == 1..3

\* The elements the scripts look up with document.querySelector.
GraphicEl(i) == <<"graphic", i>>
ContentEl(i) == <<"content", i>>
MenuBtn == <<"menuBtn", 0>>
CloseBtn == <<"closeBtn", 0>>
MobileMenu == <<"mobileMenu", 0>>
Elements ==
  {GraphicEl(i) : i \in Idx} \cup {ContentEl(i) : i \in Idx}
    \cup {MenuBtn, CloseBtn, MobileMenu}

Range(s) == {s[k] : k \in DOMAIN s}

----------------------------------------------------------------------------
\* DOMTokenList operations used by the handlers.

\* classList.add(t): appends t unless it is already in the list.
ClassAdd(l, t) == IF t \in Range(l) THEN l ELSE Append(l, t)

\* classList.remove(t): drops t; a no-op when t is absent.
ClassRemove(l, t) == SelectSeq(l, LAMBDA x : x # t)

\* classList.replace(old, new): a no-op when old is absent; otherwise new
\* takes the place of the first of old/new and the other occurrence is dropped.
ClassReplace(l, old, new) ==
  IF old \notin Range(l) THEN l
  ELSE IF new \notin Range(l)
       THEN [k \in DOMAIN l |-> IF l[k] = old THEN new ELSE l[k]]
       ELSE LET first == CHOOSE k \in DOMAIN l :
                            /\ l[k] \in {old, new}
                            /\ \A m \in DOMAIN l : l[m] \in {old, new} => k <= m
                kept == [k \in DOMAIN l |-> IF k = first THEN new ELSE l[k]]
                keep(k) == k = first \/ kept[k] \notin {old, new}
                F[k \in 0..Len(l)] ==
                   IF k = 0 THEN << >>
                   ELSE IF keep(k) THEN Append(F[k-1], kept[k]) ELSE F[k-1]
            IN F[Len(l)]

HasClass(l, t) == t \in Range(l)

----------------------------------------------------------------------------
\* The module-level objects as the page markup gives them.  Whether the
\* markup puts 'graphic1Load' and 'active' on graphic 1 is the page's choice.

GraphicSel(i) == IF i = 1 THEN "tech-content__graphics__item1"
                 ELSE IF i = 2 THEN "tech-content__graphics__item2"
                 ELSE "tech-content__graphics__item3"

ContentSel(i) == IF i = 1 THEN "tech-content__info__1"
                 ELSE IF i = 2 THEN "tech-content__info__2"
                 ELSE "tech-content__info__3"

GraphicInit(load, act) ==
  [i \in Idx |->
     [el    |-> <<GraphicSel(i)>>
                 \o (IF i = 1 /\ load THEN <<"graphic1Load">> ELSE << >>)
                 \o (IF i = 1 /\ act THEN <<"active">> ELSE << >>),
      state |-> IF i = 1 THEN "active" ELSE "inactive"]]

ContentInit == [i \in Idx |-> [el |-> <<ContentSel(i)>>, state |-> "initial"]]

----------------------------------------------------------------------------
\* handleContentChange(a, b, c): a, b, c are indices of distinct contents.

\* Variant: the sibling is hidden whatever its state.
ContentHideSiblingAlways(ct, b) ==
  [ct EXCEPT ![b] = [el    |-> ClassReplace(ct[b].el, "content-show", "content-hide"),
                     state |-> "hidden"]]

ContentHideSibling(ct, b) ==
  IF ct[b].state = "visible"
  THEN [ct EXCEPT ![b] = [el    |-> ClassReplace(ct[b].el, "content-show", "content-hide"),
                          state |-> "hidden"]]
  ELSE ct

\* Variant: a hidden target gets 'content-show' added, 'content-hide' is kept.
ContentShowAddsOnly(ct, a) ==
  IF ct[a].state \in {"initial", "hidden"}
  THEN [ct EXCEPT ![a] = [el    |-> ClassAdd(ct[a].el, "content-show"),
                          state |-> "visible"]]
  ELSE ct

\* Variant: a visible target is toggled to hidden.
ContentShowToggles(ct, a) ==
  IF ct[a].state = "initial"
  THEN [ct EXCEPT ![a] = [el    |-> ClassAdd(ct[a].el, "content-show"),
                          state |-> "visible"]]
  ELSE IF ct[a].state = "hidden"
  THEN [ct EXCEPT ![a] = [el    |-> ClassReplace(ct[a].el, "content-hide", "content-show"),
                          state |-> "visible"]]
  ELSE [ct EXCEPT ![a] = [el    |-> ClassReplace(ct[a].el, "content-show", "content-hide"),
                          state |-> "hidden"]]

ContentShow(ct, a) ==
  IF ct[a].state = "initial"
  THEN [ct EXCEPT ![a] = [el    |-> ClassAdd(ct[a].el, "content-show"),
                          state |-> "visible"]]
  ELSE IF ct[a].state = "hidden"
  THEN [ct EXCEPT ![a] = [el    |-> ClassReplace(ct[a].el, "content-hide", "content-show"),
                          state |-> "visible"]]
  ELSE ct

\* Variant: the third argument is never hidden.
handleContentChangeForgetsC(ct, a, b, c) ==
  IF ct[a].state = "initial"
  THEN LET s1 == [ct EXCEPT ![a] = [el    |-> ClassAdd(ct[a].el, "content-show"),
                                    state |-> "visible"]]
       IN IF s1[b].state = "visible"
          THEN [s1 EXCEPT ![b] = [el    |-> ClassReplace(s1[b].el, "content-show", "content-hide"),
                                  state |-> "hidden"]]
          ELSE s1
  ELSE LET s1 == IF ct[a].state = "hidden"
                 THEN [ct EXCEPT ![a] = [el    |-> ClassReplace(ct[a].el, "content-hide", "content-show"),
                                         state |-> "visible"]]
                 ELSE ct
       IN IF s1[b].state = "visible"
          THEN [s1 EXCEPT ![b] = [el    |-> ClassReplace(s1[b].el, "content-show", "content-hide"),
                                  state |-> "hidden"]]
          ELSE s1

handleContentChange(ct, a, b, c) ==
  ContentHideSibling(ContentHideSibling(ContentShow(ct, a), b), c)

\* Variant: every branch skips a null el.
ContentThrowAtGuarded(ct, a, b, c) == 0

\* The statement of handleContentChange(a, b, c) that dereferences a null el
\* (1: the branch on a, 2: on b, 3: on c), or 0 when the call returns.
ContentThrowAt(ct, a, b, c) ==
  IF ct[a].state \in {"initial", "hidden"} /\ ContentEl(a) \in absent THEN 1
  ELSE LET s1 == ContentShow(ct, a)
       IN IF s1[b].state = "visible" /\ ContentEl(b) \in absent THEN 2
          ELSE LET s2 == ContentHideSibling(s1, b)
               IN IF s2[c].state = "visible" /\ ContentEl(c) \in absent THEN 3
                  ELSE 0

\* The contents as the call leaves them, whether it returns or throws: every
\* branch touches el.classList before it assigns the state.
handleContentChangeRun(ct, a, b, c) ==
  LET at == ContentThrowAt(ct, a, b, c)
  IN CASE at = 0 -> handleContentChange(ct, a, b, c)
       [] at = 1 -> ct
       [] at = 2 -> ContentShow(ct, a)
       [] at = 3 -> ContentHideSibling(ContentShow(ct, a), b)

\* handleGraphicChange(a, b, c): a, b, c are indices of distinct graphics.

\* Variant: the state goes to inactive but the class stays on the element.
GraphicDeactivateKeepsClass(gr, b) ==
  IF gr[b].state = "active"
  THEN [gr EXCEPT ![b].state = "inactive"]
  ELSE gr

GraphicDeactivate(gr, b) ==
  IF gr[b].state = "active"
  THEN [gr EXCEPT ![b] = [el    |-> ClassRemove(gr[b].el, "active"),
                          state |-> "inactive"]]
  ELSE gr

GraphicActivate(gr, a) ==
  IF gr[a].state = "inactive"
  THEN [gr EXCEPT ![a] = [el    |-> ClassAdd(gr[a].el, "active"),
                          state |-> "active"]]
  ELSE gr

\* Variant: the third argument is never deactivated.
handleGraphicChangeForgetsC(gr, a, b, c) ==
  LET g0 == [gr EXCEPT ![1].el = ClassRemove(@, "graphic1Load")]
      g1 == IF g0[a].state = "inactive"
            THEN [g0 EXCEPT ![a] = [el    |-> ClassAdd(g0[a].el, "active"),
                                    state |-> "active"]]
            ELSE g0
  IN IF g1[b].state = "active"
     THEN [g1 EXCEPT ![b] = [el    |-> ClassRemove(g1[b].el, "active"),
                             state |-> "inactive"]]
     ELSE g1

\* Variant: the entrance class is removed only by the handler of graphic 1.
handleGraphicChangeOwnLoadOnly(gr, a, b, c) ==
  LET g0 == IF a = 1 THEN [gr EXCEPT ![1].el = ClassRemove(@, "graphic1Load")]
            ELSE gr
  IN GraphicDeactivate(GraphicDeactivate(GraphicActivate(g0, a), b), c)

handleGraphicChange(gr, a, b, c) ==
  LET g0 == [gr EXCEPT ![1].el = ClassRemove(@, "graphic1Load")]
  IN GraphicDeactivate(GraphicDeactivate(GraphicActivate(g0, a), b), c)

\* The statement of handleGraphicChange(a, b, c) that dereferences a null el
\* (1: graphic1.el, 2: the branch on a, 3: on b, 4: on c), or 0.
GraphicThrowAt(gr, a, b, c) ==
  IF GraphicEl(1) \in absent THEN 1
  ELSE LET g0 == [gr EXCEPT ![1].el = ClassRemove(@, "graphic1Load")]
       IN IF g0[a].state = "inactive" /\ GraphicEl(a) \in absent THEN 2
          ELSE LET g1 == GraphicActivate(g0, a)
               IN IF g1[b].state = "active" /\ GraphicEl(b) \in absent THEN 3
                  ELSE LET g2 == GraphicDeactivate(g1, b)
                       IN IF g2[c].state = "active" /\ GraphicEl(c) \in absent
                          THEN 4 ELSE 0

\* The graphics as the call leaves them, whether it returns or throws: every
\* branch assigns the state before it touches el.classList.
handleGraphicChangeRun(gr, a, b, c) ==
  LET at == GraphicThrowAt(gr, a, b, c)
      g0 == [gr EXCEPT ![1].el = ClassRemove(@, "graphic1Load")]
      g1 == GraphicActivate(g0, a)
      g2 == GraphicDeactivate(g1, b)
  IN CASE at = 0 -> handleGraphicChange(gr, a, b, c)
       [] at = 1 -> gr
       [] at = 2 -> [g0 EXCEPT ![a].state = "active"]
       [] at = 3 -> [g1 EXCEPT ![b].state = "inactive"]
       [] at = 4 -> [g2 EXCEPT ![c].state = "inactive"]

\* The second and third argument the mouseover listener of graphic i passes.
SiblingB(i) == IF i = 1 THEN 2 ELSE 1
\* Variant: the listener of graphic 3 passes sibling 1 twice.
SiblingCRepeats(i) == IF i = 3 THEN 1 ELSE 3

SiblingC(i) == IF i = 3 THEN 2 ELSE 3

\* The click handlers of the menu buttons.

\* Variant: the open handler toggles the class.
openHandlerToggles(ml) ==
  IF "mobile-menu--open" \in Range(ml)
  THEN SelectSeq(ml, LAMBDA x : x # "mobile-menu--open")
  ELSE Append(ml, "mobile-menu--open")

openHandler(ml) == ClassAdd(ml, "mobile-menu--open")
closeHandler(ml) == ClassRemove(ml, "mobile-menu--open")

----------------------------------------------------------------------------
\* The page after the module has loaded, lacking the elements of abs: the el
\* of an absent element is null, written as the empty class list.
PageInit(abs) ==
  /\ absent = abs
  /\ uncaught = {}
  /\ \E load \in BOOLEAN, act \in BOOLEAN :
       graphic = [i \in Idx |->
                    IF GraphicEl(i) \in abs
                    THEN [GraphicInit(load, act)[i] EXCEPT !.el = << >>]
                    ELSE GraphicInit(load, act)[i]]
  /\ content = [i \in Idx |->
                  IF ContentEl(i) \in abs
                  THEN [ContentInit[i] EXCEPT !.el = << >>]
                  ELSE ContentInit[i]]
  /\ mobileMenu = IF MobileMenu \in abs THEN << >> ELSE <<"mobile-menu">>
  /\ timer = "unset"
  /\ listeners = {}
  /\ menuListeners = {}
  /\ lastEvent = <<"load", 0>>
  /\ prevEvent = <<"load", 0>>
  /\ lastClick = "none"
  /\ nEvents = 0

----------------------------------------------------------------------------
\* The Brocfile: trees are sets of files [name, via, body], via the list of
\* transforms the file went through and body its tokens.

Undefined == "undefined"
EnvNames == {"EMBER_ENV", "NODE_ENV", "API_URL"}
EnvValues(n) == IF n = "API_URL" THEN {"https://api"}
                ELSE {"development", "production", "test"}
EnvRef(n) == "process.env." \o n
SourceTokens == {EnvRef(n) : n \in EnvNames} \cup {"bodymovin"}

File(n, b) == [name |-> n, via |-> << >>, body |-> b]
Names(tree) == {f.name : f \in tree}
Transform(tree, t) == {[f EXCEPT !.via = Append(@, t)] : f \in tree}

PublicDir == {File("index.html", << >>), File("layer1.json", << >>)}
AppDir(src) == {File("index.js", src), File("styles/app.scss", << >>)}
TestsDir == {File("index-test.js", << >>)}

\* JSON.stringify of an environment value; undefined stays undefined.
JSONStringify(v) == IF v = Undefined THEN Undefined ELSE "\"" \o v \o "\""

\* broccoli-inject-livereload: adds the hook to the html it serves.
LiveReload(tree) ==
  {IF f.name = "index.html" THEN [f EXCEPT !.via = Append(@, "livereload")] ELSE f :
     f \in tree}
Sass(out) == {[File(out, << >>) EXCEPT !.via = <<"sass">>]}
CssOptimizer(tree) == Transform(tree, "csso")
Autoprefixer(tree) == Transform(tree, "autoprefixer")
rm(tree, gone) == {f \in tree : f.name \notin gone}
mv(tree, dir) == {[f EXCEPT !.name = dir \o "/" \o @] : f \in tree}
Babel(tree) == Transform(tree, "babel")
Merge(trees) == UNION trees

\* rollup-plugin-replace: a token that is a pattern becomes String(its text).
ReplaceToken(t, values) ==
  IF \E v \in values : v[1] = t
  THEN (CHOOSE v \in values : v[1] = t)[2]
  ELSE t

\* broccoli-rollup: bundles the entry into dest, running the plugins on it.
Rollup(tree, entry, dest, values) ==
  {[name |-> dest,
    via  |-> Append(f.via, "rollup"),
    body |-> [k \in DOMAIN f.body |-> ReplaceToken(f.body[k], values)]] :
     f \in {g \in tree : g.name = entry}}

\* No build runs: the state of the Brocfile's variables in the browser.
BuildOff ==
  /\ bpc = "off"
  /\ shellEnv = [n \in EnvNames |-> Undefined]
  /\ dotenvFile = [n \in EnvNames |-> Undefined]
  /\ appSource = << >>
  /\ processEnv = [n \in EnvNames |-> Undefined]
  /\ replaceValues = {}
  /\ pubFiles = {}
  /\ appScript = {}
  /\ styles = {}
  /\ exported = {}

\* The build tool loads the Brocfile: EMBER_ENV as the shell gives it, some
\* .env file, some app/index.js.
InitBroc ==
  /\ bpc = "start"
  /\ \E e \in EnvValues("EMBER_ENV") \cup {Undefined} :
       shellEnv = [n \in EnvNames |-> IF n = "EMBER_ENV" THEN e ELSE Undefined]
  /\ dotenvFile \in [EnvNames -> {"development", "production", "test",
                                  "https://api", Undefined}]
  /\ \A n \in EnvNames : dotenvFile[n] \in EnvValues(n) \cup {Undefined}
  /\ appSource \in [1..MaxTokens -> SourceTokens]
  /\ processEnv = shellEnv
  /\ replaceValues = {}
  /\ pubFiles = {}
  /\ appScript = {}
  /\ styles = {}
  /\ exported = {}

\* Line 55, require('dotenv').config(): a variable of the file is set unless
\* the environment already defines it.
BrocDotenv ==
  /\ bpc = "start"
  /\ bpc' = "dotenv"
  /\ processEnv' = [n \in EnvNames |->
                      IF processEnv[n] # Undefined THEN processEnv[n]
                      ELSE dotenvFile[n]]
  /\ UNCHANGED <<shellEnv, dotenvFile, appSource, replaceValues, pubFiles,
                 appScript, styles, exported>>
  /\ UNCHANGED offBuild

\* Variant: every variable of process.env is given to the replace plugin.
BrocPluginsInlinesAll ==
  /\ bpc = "dotenv"
  /\ bpc' = "plugins"
  /\ replaceValues' = {<<EnvRef(n), JSONStringify(processEnv[n])>> : n \in EnvNames}
  /\ UNCHANGED <<shellEnv, dotenvFile, appSource, processEnv, pubFiles,
                 appScript, styles, exported>>
  /\ UNCHANGED offBuild

\* Lines 74-83, the rollup plugins.
BrocPlugins ==
  /\ bpc = "dotenv"
  /\ bpc' = "plugins"
  /\ replaceValues' =
       {<<"process.env.NODE_ENV", JSONStringify(processEnv["EMBER_ENV"])>>}
  /\ UNCHANGED <<shellEnv, dotenvFile, appSource, processEnv, pubFiles,
                 appScript, styles, exported>>
  /\ UNCHANGED offBuild

\* Variant: the production override of pubFiles is missing.
BrocPubFilesAlwaysReloads ==
  /\ bpc = "plugins"
  /\ bpc' = "pubFiles"
  /\ pubFiles' = LiveReload(PublicDir)
  /\ UNCHANGED <<shellEnv, dotenvFile, appSource, processEnv, replaceValues,
                 appScript, styles, exported>>
  /\ UNCHANGED offBuild

\* Lines 86-90.
BrocPubFiles ==
  /\ bpc = "plugins"
  /\ bpc' = "pubFiles"
  /\ pubFiles' = IF processEnv["EMBER_ENV"] = "production" THEN PublicDir
                 ELSE LiveReload(PublicDir)
  /\ UNCHANGED <<shellEnv, dotenvFile, appSource, processEnv, replaceValues,
                 appScript, styles, exported>>
  /\ UNCHANGED offBuild

\* Lines 100-111: appNoSass, babelScript, appScript.
BrocScripts ==
  /\ bpc = "pubFiles"
  /\ bpc' = "scripts"
  /\ appScript' = Rollup(Babel(rm(AppDir(appSource), {"styles/app.scss"})),
                         "index.js", "app.js", replaceValues)
  /\ UNCHANGED <<shellEnv, dotenvFile, appSource, processEnv, replaceValues,
                 pubFiles, styles, exported>>
  /\ UNCHANGED offBuild

\* Variant: the stylesheet is prefixed first and minified after.
BrocStylesPrefixFirst ==
  /\ bpc = "scripts"
  /\ bpc' = "styles"
  /\ styles' = CssOptimizer(Autoprefixer(Sass("app.css")))
  /\ UNCHANGED <<shellEnv, dotenvFile, appSource, processEnv, replaceValues,
                 pubFiles, appScript, exported>>
  /\ UNCHANGED offBuild

\* Lines 113-115: compiledSass, optimizedCSS, styles.
BrocStyles ==
  /\ bpc = "scripts"
  /\ bpc' = "styles"
  /\ styles' = Autoprefixer(CssOptimizer(Sass("app.css")))
  /\ UNCHANGED <<shellEnv, dotenvFile, appSource, processEnv, replaceValues,
                 pubFiles, appScript, exported>>
  /\ UNCHANGED offBuild

\* The test bundle of lines 118-129.
TestJs ==
  Rollup(Merge({mv(Babel(rm(AppDir(appSource), {"styles/app.scss"})), "app"),
                mv(Babel(TestsDir), "tests")}),
         "tests/index-test.js", "tests.js", replaceValues)

\* Variant: the test bundle is built in every mode but production.
BrocExportTestsUnlessProduction ==
  /\ bpc = "styles"
  /\ bpc' = "exported"
  /\ exported' = IF processEnv["EMBER_ENV"] # "production"
                 THEN Merge({pubFiles, styles, appScript, TestJs})
                 ELSE Merge({pubFiles, styles, appScript})
  /\ UNCHANGED <<shellEnv, dotenvFile, appSource, processEnv, replaceValues,
                 pubFiles, appScript, styles>>
  /\ UNCHANGED offBuild

\* Lines 117-134.
BrocExport ==
  /\ bpc = "styles"
  /\ bpc' = "exported"
  /\ exported' = IF processEnv["EMBER_ENV"] = "test"
                 THEN Merge({pubFiles, styles, appScript, TestJs})
                 ELSE Merge({pubFiles, styles, appScript})
  /\ UNCHANGED <<shellEnv, dotenvFile, appSource, processEnv, replaceValues,
                 pubFiles, appScript, styles>>
  /\ UNCHANGED offBuild

NextBroc ==
  \/ BrocDotenv
  \/ BrocPlugins
  \/ BrocPubFiles
  \/ BrocScripts
  \/ BrocStyles
  \/ BrocExport

----------------------------------------------------------------------------
\* The server's init hook, module.exports = function (app) { ... }.

ReadError == <<"ENOENT">>
MarkdownLines == {"# Getting Started", "Counterfactual is a framework."}

\* showdown's makeHtml on one line: a heading or a paragraph.
LineHtml(l) == IF l = "# Getting Started" THEN "<h1>Getting Started</h1>"
               ELSE "<p>" \o l \o "</p>"
makeHtml(data) == [k \in DOMAIN data |-> LineHtml(data[k])]

HtmlEntries == {k \in DOMAIN consoleLog : consoleLog[k][1] = "html"}

\* No server runs.
ServerOff ==
  /\ spc = "off"
  /\ appStack = << >>
  /\ fileRead = ReadError
  /\ fsRead = "none"
  /\ consoleLog = << >>
  /\ crashed = FALSE
  /\ initResult = "none"
  /\ nRequests = 0

\* The build tool is about to call the hook; the read will fail or give the
\* file's lines.
InitServer ==
  /\ spc = "idle"
  /\ appStack = << >>
  /\ fileRead \in {ReadError} \cup UNION {[1..n -> MarkdownLines] : n \in 0..MaxLines}
  /\ fsRead = "none"
  /\ consoleLog = << >>
  /\ crashed = FALSE
  /\ initResult = "none"
  /\ nRequests = 0

\* Lines 6-7: app.use(morgan('dev')).
ServerUseMorgan ==
  /\ spc = "idle"
  /\ spc' = "logging"
  /\ appStack' = Append(appStack, "morgan")
  /\ UNCHANGED <<fileRead, fsRead, consoleLog, crashed, initResult, nRequests>>
  /\ UNCHANGED offServer

\* Lines 9-12: the converter is made and fs.readFile starts the read.
ServerReadFile ==
  /\ spc = "logging"
  /\ spc' = "reading"
  /\ fsRead' = "pending"
  /\ UNCHANGED <<appStack, fileRead, consoleLog, crashed, initResult, nRequests>>
  /\ UNCHANGED offServer

\* Line 17: the function returns, without a value.
ServerReturn ==
  /\ spc = "reading"
  /\ spc' = "returned"
  /\ initResult' = "undefined"
  /\ UNCHANGED <<appStack, fileRead, fsRead, consoleLog, crashed, nRequests>>
  /\ UNCHANGED offServer

\* Variant: a read error is dropped.
ReadCallbackIgnoresError ==
  /\ fsRead = "pending"
  /\ spc = "returned"
  /\ ~crashed
  /\ fsRead' = "done"
  /\ consoleLog' = IF fileRead = ReadError THEN consoleLog
                   ELSE Append(consoleLog, <<"html", makeHtml(fileRead)>>)
  /\ UNCHANGED <<spc, appStack, fileRead, crashed, initResult, nRequests>>
  /\ UNCHANGED offServer

\* Variant: the HTML is also served by a route.
ReadCallbackServesHtml ==
  /\ fsRead = "pending"
  /\ spc = "returned"
  /\ ~crashed
  /\ fsRead' = "done"
  /\ IF fileRead = ReadError
     THEN crashed' = TRUE /\ UNCHANGED <<consoleLog, appStack>>
     ELSE /\ crashed' = FALSE
          /\ consoleLog' = Append(consoleLog, <<"html", makeHtml(fileRead)>>)
          /\ appStack' = Append(appStack, "docs")
  /\ UNCHANGED <<spc, fileRead, initResult, nRequests>>
  /\ UNCHANGED offServer

\* Variant: the callback may run while the init function is still running.
ReadCallbackBeforeReturn ==
  /\ fsRead = "pending"
  /\ spc \in {"reading", "returned"}
  /\ ~crashed
  /\ fsRead' = "done"
  /\ IF fileRead = ReadError
     THEN crashed' = TRUE /\ consoleLog' = consoleLog
     ELSE /\ crashed' = FALSE
          /\ consoleLog' = Append(consoleLog, <<"html", makeHtml(fileRead)>>)
  /\ UNCHANGED <<spc, appStack, fileRead, initResult, nRequests>>
  /\ UNCHANGED offServer

\* Lines 12-16, the readFile callback: the event loop runs it once the
\* function that started the read has returned.
ReadCallback ==
  /\ fsRead = "pending"
  /\ spc = "returned"
  /\ ~crashed
  /\ fsRead' = "done"
  /\ IF fileRead = ReadError
     THEN \* line 13: throw err, out of the callback
          crashed' = TRUE /\ consoleLog' = consoleLog
     ELSE \* lines 14-15
          /\ crashed' = FALSE
          /\ consoleLog' = Append(consoleLog, <<"html", makeHtml(fileRead)>>)
  /\ UNCHANGED <<spc, appStack, fileRead, initResult, nRequests>>
  /\ UNCHANGED offServer

\* A request to the running server: each middleware of the stack sees it, and
\* morgan writes one line to the log.
Request ==
  /\ spc = "returned"
  /\ ~crashed
  /\ nRequests < MaxRequests
  /\ nRequests' = nRequests + 1
  /\ consoleLog' = LET loggers == SelectSeq(appStack, LAMBDA m : m = "morgan")
                   IN consoleLog \o [k \in DOMAIN loggers |-> <<"morgan", << >> >>]
  /\ UNCHANGED <<spc, appStack, fileRead, fsRead, crashed, initResult>>
  /\ UNCHANGED offServer

NextServer ==
  \/ ServerUseMorgan
  \/ ServerReadFile
  \/ ServerReturn
  \/ ReadCallback
  \/ Request

----------------------------------------------------------------------------
\* The HighRoller game of the guide: the contract's enums and functions.

START_GAME == 0
COMMIT_TO_HASH == 1
COMMIT_TO_NUM == 2
REVEAL == 3
ActionTypes == {START_GAME, COMMIT_TO_HASH, COMMIT_TO_NUM, REVEAL}

PRE_GAME == 0
COMMITTING_HASH == 1
COMMITTING_NUM == 2
REVEALING == 3
DONE == 4
Stages == {PRE_GAME, COMMITTING_HASH, COMMITTING_NUM, REVEALING, DONE}

FIRST == 0
SECOND == 1
Players == {FIRST, SECOND}

\* bytes32 values: the zero word, the dapp's salt, and the hash of a salt and
\* a number, which differs for different inputs.
HashZero == <<"zero", "", 0>>
numberSalt == <<"salt", "numberSalt", 0>>
solidityKeccak256(salt, n) == <<"keccak", salt[2], n>>

\* BigNumber.toString(): the decimal digits of n, most significant first.
RECURSIVE toString(_)
toString(n) == IF n < 10 THEN <<n>> ELSE Append(toString(n \div 10), n % 10)

\* The uint256 the action encoding makes of a decimal string.
RECURSIVE ParseUint(_)
ParseUint(d) == IF d = << >> THEN 0
                ELSE 10 * ParseUint(SubSeq(d, 1, Len(d) - 1)) + d[Len(d)]

\* generatePlayerNumber(): 1 + floor(random * 1000), here up to MaxNumber.
PlayerNumbers == 1..MaxNumber

\* currentGame.playerFirstNumber before roll() has stored it: undefined.
NoNumber == 0

Action(t, n, h) == [actionType |-> t, number |-> n, actionHash |-> h]

initialState ==
  [stage |-> PRE_GAME, salt |-> HashZero, commitHash |-> HashZero,
   playerFirstNumber |-> 0, playerSecondNumber |-> 0]

isStateTerminal(state) == state.stage = DONE

\* Variant: the second player also reveals.
getTurnTakerSecondReveals(state) ==
  IF state.stage \in {COMMITTING_NUM, REVEALING} THEN SECOND ELSE FIRST

getTurnTaker(state) == IF state.stage = COMMITTING_NUM THEN SECOND ELSE FIRST

\* Variant: REVEAL has no require on the stage.
applyActionRevealAnywhere(state, action) ==
  IF action.actionType = START_GAME
  THEN IF state.stage = PRE_GAME
       THEN {[state EXCEPT !.stage = COMMITTING_HASH]} ELSE {}
  ELSE IF action.actionType = COMMIT_TO_HASH
  THEN IF state.stage = COMMITTING_HASH
       THEN {[state EXCEPT !.stage = COMMITTING_NUM,
                           !.commitHash = action.actionHash]} ELSE {}
  ELSE IF action.actionType = COMMIT_TO_NUM
  THEN IF state.stage = COMMITTING_NUM
       THEN {[state EXCEPT !.stage = REVEALING,
                           !.playerSecondNumber = action.number]} ELSE {}
  ELSE IF action.actionType = REVEAL
  THEN {[state EXCEPT !.stage = DONE,
                      !.playerFirstNumber = action.number,
                      !.salt = action.actionHash]}
  ELSE {}

\* applyAction(state, action): the set holding the next state, or the empty
\* set when a require fails or the action type is invalid (the call reverts).
\* REVEAL carries the first player's number and salt in the Action's number
\* and actionHash fields.
applyAction(state, action) ==
  IF action.actionType = START_GAME
  THEN IF state.stage = PRE_GAME
       THEN {[state EXCEPT !.stage = COMMITTING_HASH]} ELSE {}
  ELSE IF action.actionType = COMMIT_TO_HASH
  THEN IF state.stage = COMMITTING_HASH
       THEN {[state EXCEPT !.stage = COMMITTING_NUM,
                           !.commitHash = action.actionHash]} ELSE {}
  ELSE IF action.actionType = COMMIT_TO_NUM
  THEN IF state.stage = COMMITTING_NUM
       THEN {[state EXCEPT !.stage = REVEALING,
                           !.playerSecondNumber = action.number]} ELSE {}
  ELSE IF action.actionType = REVEAL
  THEN IF state.stage = REVEALING
       THEN {[state EXCEPT !.stage = DONE,
                           !.playerFirstNumber = action.number,
                           !.salt = action.actionHash]} ELSE {}
  ELSE {}

\* resetGameState(): a fresh currentGame.
resetGameState == [stage |-> PRE_GAME, playerFirstNumber |-> NoNumber]

\* No dapp is open.
GameOff ==
  /\ appInstance = "off"
  /\ appState = initialState
  /\ currentGame = resetGameState
  /\ rollBtn = FALSE
  /\ rollPc = "idle"
  /\ rollNumber = NoNumber
  /\ awaited = PRE_GAME
  /\ completePc = "idle"
  /\ updateEvents = << >>
  /\ actionLog = << >>
  /\ nReverts = 0
  /\ game = 0
  /\ typeErrors = 0
  /\ doneSeen = FALSE

\* The dapp has loaded and run() has called install(): the install is proposed.
InitGame ==
  /\ appInstance = "none"
  /\ appState = initialState
  /\ currentGame = resetGameState
  /\ rollBtn = TRUE
  /\ rollPc = "idle"
  /\ rollNumber = NoNumber
  /\ awaited = PRE_GAME
  /\ completePc = "idle"
  /\ updateEvents = << >>
  /\ actionLog = << >>
  /\ nReverts = 0
  /\ game = 1
  /\ typeErrors = 0
  /\ doneSeen = FALSE

\* appInstance.takeAction(action) by player `by`, with `queue` the events still
\* to deliver: the channel applies the action; an accepted action is logged
\* and reported by an updateState event, a reverted one changes nothing.
TakeAction(by, action, queue) ==
  LET next == applyAction(appState, action)
  IN IF next = {}
     THEN /\ nReverts' = nReverts + 1
          /\ updateEvents' = queue
          /\ UNCHANGED <<appState, actionLog, awaited>>
     ELSE /\ appState' = CHOOSE st \in next : TRUE
          /\ awaited' = appState'.stage
          /\ actionLog' = Append(actionLog,
                                 [by |-> by, action |-> action, from |-> appState.stage])
          /\ updateEvents' = Append(queue, appState'.stage)
          /\ nReverts' = nReverts

\* onInstallEvent(): the opponent accepted the install.
onInstallEvent ==
  /\ UNCHANGED offGame
  /\ appInstance = "none"
  /\ appInstance' = "installed"
  /\ appState' = initialState
  /\ UNCHANGED <<currentGame, rollBtn, rollPc, rollNumber, awaited, completePc,
                 updateEvents, actionLog, nReverts, game, typeErrors, doneSeen>>

\* A click on the enabled roll button: roll() up to its first await.
roll ==
  /\ UNCHANGED offGame
  /\ appInstance = "installed"
  /\ rollBtn
  /\ rollPc = "idle"
  /\ rollBtn' = FALSE
  /\ IF currentGame.stage = PRE_GAME
     THEN /\ TakeAction(FIRST, Action(START_GAME, 0, HashZero), updateEvents)
          /\ rollPc' = "start"
     ELSE /\ \E n \in PlayerNumbers :
               TakeAction(FIRST, Action(COMMIT_TO_NUM, n, HashZero), updateEvents)
          /\ rollPc' = "num"
  /\ UNCHANGED <<appInstance, currentGame, rollNumber, completePc, game,
                 typeErrors, doneSeen>>

\* roll() resumes after START_GAME: it draws its number and commits to the
\* hash of the salt and the number.
rollCommit ==
  /\ UNCHANGED offGame
  /\ rollPc = "start"
  /\ rollPc' = "commit"
  /\ currentGame' = [currentGame EXCEPT !.stage = awaited]
  /\ \E n \in PlayerNumbers :
       /\ rollNumber' = n
       /\ TakeAction(FIRST,
                     Action(COMMIT_TO_HASH, 0, solidityKeccak256(numberSalt, n)),
                     updateEvents)
  /\ UNCHANGED <<appInstance, rollBtn, completePc, game, typeErrors, doneSeen>>

\* Variant: the number stored for the reveal is drawn again.
rollStoreDrawsAgain ==
  /\ UNCHANGED offGame
  /\ rollPc \in {"commit", "num"}
  /\ rollPc' = "idle"
  /\ \E n \in PlayerNumbers :
       currentGame' = [stage |-> awaited,
                       playerFirstNumber |-> IF rollPc = "commit" THEN n
                                             ELSE currentGame.playerFirstNumber]
  /\ UNCHANGED <<appInstance, appState, rollBtn, rollNumber, awaited, completePc,
                 updateEvents, actionLog, nReverts, game, typeErrors, doneSeen>>

\* roll() resumes after its last takeAction(): after COMMIT_TO_HASH it stores
\* the number in currentGame.
rollStore ==
  /\ UNCHANGED offGame
  /\ rollPc \in {"commit", "num"}
  /\ rollPc' = "idle"
  /\ currentGame' = [stage |-> awaited,
                     playerFirstNumber |-> IF rollPc = "commit" THEN rollNumber
                                           ELSE currentGame.playerFirstNumber]
  /\ UNCHANGED <<appInstance, appState, rollBtn, rollNumber, awaited, completePc,
                 updateEvents, actionLog, nReverts, game, typeErrors, doneSeen>>

\* The opponent, on receiving the state in COMMITTING_NUM, commits a number.
botCommitNum ==
  /\ UNCHANGED offGame
  /\ appInstance = "installed"
  /\ appState.stage = COMMITTING_NUM
  /\ \E n \in PlayerNumbers :
       TakeAction(SECOND, Action(COMMIT_TO_NUM, n, HashZero), updateEvents)
  /\ UNCHANGED <<appInstance, currentGame, rollBtn, rollPc, rollNumber, completePc,
                 game, typeErrors, doneSeen>>

\* Some player submits an action that the contract does not accept now.
strayAction ==
  /\ UNCHANGED offGame
  /\ appInstance = "installed"
  /\ nReverts < MaxStray
  /\ \E by \in Players, t \in ActionTypes :
       /\ applyAction(appState, Action(t, 0, HashZero)) = {}
       /\ TakeAction(by, Action(t, 0, HashZero), updateEvents)
  /\ UNCHANGED <<appInstance, currentGame, rollBtn, rollPc, rollNumber, completePc,
                 game, typeErrors, doneSeen>>

\* Variant: the handler also reveals on an event reporting COMMITTING_NUM.
onUpdateEventRevealsEarly ==
  /\ UNCHANGED offGame
  /\ updateEvents # << >>
  /\ LET stage == Head(updateEvents)
         playerFirstNumber == currentGame.playerFirstNumber
     IN IF stage \in {COMMITTING_NUM, REVEALING}
        THEN IF playerFirstNumber = NoNumber
             THEN /\ typeErrors' = typeErrors + 1
                  /\ updateEvents' = Tail(updateEvents)
                  /\ UNCHANGED <<appState, actionLog, nReverts, awaited, completePc,
                                 doneSeen>>
             ELSE /\ TakeAction(FIRST,
                                Action(REVEAL, ParseUint(toString(playerFirstNumber)),
                                       numberSalt),
                                Tail(updateEvents))
                  /\ UNCHANGED <<typeErrors, completePc, doneSeen>>
        ELSE IF stage = DONE
        THEN /\ updateEvents' = Tail(updateEvents)
             /\ doneSeen' = TRUE
             /\ IF playerFirstNumber = NoNumber
                THEN typeErrors' = typeErrors + 1 /\ completePc' = completePc
                ELSE typeErrors' = typeErrors /\ completePc' = "executing"
             /\ UNCHANGED <<appState, actionLog, nReverts, awaited>>
        ELSE /\ updateEvents' = Tail(updateEvents)
             /\ UNCHANGED <<appState, actionLog, nReverts, awaited, typeErrors,
                            completePc, doneSeen>>
  /\ UNCHANGED <<appInstance, currentGame, rollBtn, rollPc, rollNumber, game>>

\* onUpdateEvent({ data }): the provider delivers the oldest pending event.
\* REVEALING: revealDice() submits REVEAL with the stored number and the salt,
\* and throws when no number is stored.  DONE: completeGame() runs up to its
\* first await, and throws in executeContract() when no number is stored.
onUpdateEvent ==
  /\ UNCHANGED offGame
  /\ updateEvents # << >>
  /\ LET stage == Head(updateEvents)
         playerFirstNumber == currentGame.playerFirstNumber
     IN IF stage = REVEALING
        THEN IF playerFirstNumber = NoNumber
             THEN /\ typeErrors' = typeErrors + 1
                  /\ updateEvents' = Tail(updateEvents)
                  /\ UNCHANGED <<appState, actionLog, nReverts, awaited, completePc,
                                 doneSeen>>
             ELSE /\ TakeAction(FIRST,
                                Action(REVEAL, ParseUint(toString(playerFirstNumber)),
                                       numberSalt),
                                Tail(updateEvents))
                  /\ UNCHANGED <<typeErrors, completePc, doneSeen>>
        ELSE IF stage = DONE
        THEN /\ updateEvents' = Tail(updateEvents)
             /\ doneSeen' = TRUE
             /\ IF playerFirstNumber = NoNumber
                THEN typeErrors' = typeErrors + 1 /\ completePc' = completePc
                ELSE typeErrors' = typeErrors /\ completePc' = "executing"
             /\ UNCHANGED <<appState, actionLog, nReverts, awaited>>
        ELSE /\ updateEvents' = Tail(updateEvents)
             /\ UNCHANGED <<appState, actionLog, nReverts, awaited, typeErrors,
                            completePc, doneSeen>>
  /\ UNCHANGED <<appInstance, currentGame, rollBtn, rollPc, rollNumber, game>>

\* completeGame() resumes after executeContract(): it shows the result and
\* calls appInstance.uninstall().
completeGameUninstall ==
  /\ UNCHANGED offGame
  /\ completePc = "executing"
  /\ completePc' = "uninstalling"
  /\ appInstance' = "uninstalled"
  /\ UNCHANGED <<appState, currentGame, rollBtn, rollPc, rollNumber, awaited,
                 updateEvents, actionLog, nReverts, game, typeErrors, doneSeen>>

\* completeGame() resumes after uninstall(): resetApp() enables the button and
\* calls install(), which resets currentGame and proposes the next install.
resetApp ==
  /\ UNCHANGED offGame
  /\ completePc = "uninstalling"
  /\ game < MaxGames
  /\ completePc' = "idle"
  /\ rollBtn' = TRUE
  /\ currentGame' = resetGameState
  /\ appInstance' = "none"
  /\ game' = game + 1
  /\ actionLog' = << >>
  /\ doneSeen' = FALSE
  /\ UNCHANGED <<appState, rollPc, rollNumber, awaited, updateEvents, nReverts,
                 typeErrors>>

NextGame ==
  \/ onInstallEvent
  \/ roll
  \/ rollCommit
  \/ rollStore
  \/ botCommitNum
  \/ strayAction
  \/ onUpdateEvent
  \/ completeGameUninstall
  \/ resetApp

----------------------------------------------------------------------------
\* The page has every element the scripts expect.
Init == PageInit({}) /\ BuildOff /\ ServerOff /\ GameOff

\* The page lacks between one and MaxAbsent of the expected elements.
InitDom ==
  \E abs \in SUBSET Elements :
     /\ Cardinality(abs) \in 1..MaxAbsent
     /\ PageInit(abs)
     /\ BuildOff
     /\ ServerOff
     /\ GameOff

\* Variant: the mouseover listeners are bound at the call, not in the callback.
animateElementsBindsAtCall ==
  /\ UNCHANGED offPage
  /\ timer = "unset"
  /\ timer' = "pending"
  /\ listeners' = {1, 2, 3}
  /\ lastEvent' = <<"animateElements", 0>>
  /\ prevEvent' = lastEvent
  /\ UNCHANGED <<graphic, content, mobileMenu, menuListeners, lastClick, nEvents,
                 absent, uncaught>>

\* animateElements(): schedules the delayed callback; the page calls it once.
animateElements ==
  /\ UNCHANGED offPage
  /\ timer = "unset"
  /\ timer' = "pending"
  /\ lastEvent' = <<"animateElements", 0>>
  /\ prevEvent' = lastEvent
  /\ UNCHANGED <<graphic, content, mobileMenu, listeners, menuListeners,
                 lastClick, nEvents, absent, uncaught>>

\* Variant: the callback also runs the graphic handler for graphic 1.
TimeoutRunsGraphicHandler ==
  /\ UNCHANGED offPage
  /\ timer = "pending"
  /\ timer' = "fired"
  /\ content' = handleContentChange(content, 1, 2, 3)
  /\ graphic' = handleGraphicChange(graphic, 1, 2, 3)
  /\ listeners' = listeners \cup {1, 2, 3}
  /\ lastEvent' = <<"timeout", 0>>
  /\ prevEvent' = lastEvent
  /\ UNCHANGED <<mobileMenu, menuListeners, lastClick, nEvents, absent, uncaught>>

\* Variant: the callback only binds the listeners.
TimeoutOnlyBinds ==
  /\ UNCHANGED offPage
  /\ timer = "pending"
  /\ timer' = "fired"
  /\ listeners' = listeners \cup {1, 2, 3}
  /\ lastEvent' = <<"timeout", 0>>
  /\ prevEvent' = lastEvent
  /\ UNCHANGED <<graphic, content, mobileMenu, menuListeners, lastClick, nEvents,
                 absent, uncaught>>

\* Variant: the callback skips a null graphic el and binds the others.
TimeoutBindsPastNull ==
  /\ UNCHANGED offPage
  /\ timer = "pending"
  /\ timer' = "fired"
  /\ lastEvent' = <<"timeout", 0>>
  /\ prevEvent' = lastEvent
  /\ IF ContentThrowAt(content, 1, 2, 3) # 0
     THEN /\ content' = handleContentChangeRun(content, 1, 2, 3)
          /\ listeners' = listeners
          /\ uncaught' = uncaught \cup {<<"timeout", 0>>}
     ELSE /\ content' = handleContentChange(content, 1, 2, 3)
          /\ listeners' = listeners \cup {k \in Idx : GraphicEl(k) \notin absent}
          /\ uncaught' = IF \E k \in Idx : GraphicEl(k) \in absent
                         THEN uncaught \cup {<<"timeout", 0>>}
                         ELSE uncaught
  /\ UNCHANGED <<graphic, mobileMenu, menuListeners, lastClick, nEvents, absent>>

\* The setTimeout callback, 4000 ms after animateElements().
Timeout ==
  /\ UNCHANGED offPage
  /\ timer = "pending"
  /\ timer' = "fired"
  /\ lastEvent' = <<"timeout", 0>>
  /\ prevEvent' = lastEvent
  /\ IF ContentThrowAt(content, 1, 2, 3) # 0
     THEN \* line 106 throws: nothing after it runs
          /\ content' = handleContentChangeRun(content, 1, 2, 3)
          /\ listeners' = listeners
          /\ uncaught' = uncaught \cup {<<"timeout", 0>>}
     ELSE /\ content' = handleContentChange(content, 1, 2, 3)
          \* lines 110, 116, 122 in order, up to the first null graphic el
          /\ listeners' = listeners \cup
                {k \in Idx : \A j \in 1..k : GraphicEl(j) \notin absent}
          /\ uncaught' = IF \E k \in Idx : GraphicEl(k) \in absent
                         THEN uncaught \cup {<<"timeout", 0>>}
                         ELSE uncaught
  /\ UNCHANGED <<graphic, mobileMenu, menuListeners, lastClick, nEvents, absent>>

\* A mouseover event on graphic i: runs the listener if one is bound.
Mouseover(i) ==
  /\ UNCHANGED offPage
  /\ GraphicEl(i) \notin absent
  /\ nEvents < MaxEvents
  /\ nEvents' = nEvents + 1
  /\ lastEvent' = <<"mouseover", i>>
  /\ prevEvent' = lastEvent
  /\ IF i \notin listeners
     THEN UNCHANGED <<graphic, content, uncaught>>
     ELSE IF ContentThrowAt(content, i, SiblingB(i), SiblingC(i)) # 0
     THEN \* the first call throws: handleGraphicChange is not reached
          /\ content' = handleContentChangeRun(content, i, SiblingB(i), SiblingC(i))
          /\ graphic' = graphic
          /\ uncaught' = uncaught \cup {<<"mouseover", i>>}
     ELSE IF GraphicThrowAt(graphic, i, SiblingB(i), SiblingC(i)) # 0
     THEN /\ content' = handleContentChange(content, i, SiblingB(i), SiblingC(i))
          /\ graphic' = handleGraphicChangeRun(graphic, i, SiblingB(i), SiblingC(i))
          /\ uncaught' = uncaught \cup {<<"mouseover", i>>}
     ELSE /\ content' = handleContentChange(content, i, SiblingB(i), SiblingC(i))
          /\ graphic' = handleGraphicChange(graphic, i, SiblingB(i), SiblingC(i))
          /\ uncaught' = uncaught
  /\ UNCHANGED <<mobileMenu, timer, listeners, menuListeners, lastClick, absent>>

\* Variant: a null button is skipped and the other one is still bound.
toggleMenuSkipsNull ==
  /\ UNCHANGED offPage
  /\ menuListeners = {}
  /\ <<"toggleMenu", 0>> \notin uncaught
  /\ lastEvent' = <<"toggleMenu", 0>>
  /\ prevEvent' = lastEvent
  /\ menuListeners' = (IF MenuBtn \in absent THEN {} ELSE {"menuBtn"})
                        \cup (IF CloseBtn \in absent THEN {} ELSE {"closeBtn"})
  /\ uncaught' = IF MenuBtn \in absent \/ CloseBtn \in absent
                 THEN uncaught \cup {<<"toggleMenu", 0>>}
                 ELSE uncaught
  /\ UNCHANGED <<graphic, content, mobileMenu, timer, listeners, lastClick, nEvents,
                 absent>>

\* toggleMenu(): binds the two click listeners; the page calls it once.
toggleMenu ==
  /\ UNCHANGED offPage
  /\ menuListeners = {}
  /\ <<"toggleMenu", 0>> \notin uncaught
  /\ lastEvent' = <<"toggleMenu", 0>>
  /\ prevEvent' = lastEvent
  /\ IF MenuBtn \in absent
     THEN \* line 136 throws
          /\ menuListeners' = {}
          /\ uncaught' = uncaught \cup {<<"toggleMenu", 0>>}
     ELSE IF CloseBtn \in absent
     THEN \* line 140 throws, after line 136 has bound the open handler
          /\ menuListeners' = {"menuBtn"}
          /\ uncaught' = uncaught \cup {<<"toggleMenu", 0>>}
     ELSE /\ menuListeners' = {"menuBtn", "closeBtn"}
          /\ uncaught' = uncaught
  /\ UNCHANGED <<graphic, content, mobileMenu, timer, listeners, lastClick, nEvents,
                 absent>>

\* A click on the open button ('.menu-btn').
ClickOpen ==
  /\ UNCHANGED offPage
  /\ MenuBtn \notin absent
  /\ nEvents < MaxEvents
  /\ nEvents' = nEvents + 1
  /\ lastEvent' = <<"click", 1>>
  /\ prevEvent' = lastEvent
  /\ IF "menuBtn" \notin menuListeners
     THEN UNCHANGED <<mobileMenu, lastClick, uncaught>>
     ELSE IF MobileMenu \in absent
     THEN \* line 137 throws on the null overlay
          /\ uncaught' = uncaught \cup {<<"click", 1>>}
          /\ UNCHANGED <<mobileMenu, lastClick>>
     ELSE /\ mobileMenu' = openHandler(mobileMenu)
          /\ lastClick' = "open"
          /\ uncaught' = uncaught
  /\ UNCHANGED <<graphic, content, timer, listeners, menuListeners, absent>>

\* A click on the close button ('.mobile-menu__close').
ClickClose ==
  /\ UNCHANGED offPage
  /\ CloseBtn \notin absent
  /\ nEvents < MaxEvents
  /\ nEvents' = nEvents + 1
  /\ lastEvent' = <<"click", 2>>
  /\ prevEvent' = lastEvent
  /\ IF "closeBtn" \notin menuListeners
     THEN UNCHANGED <<mobileMenu, lastClick, uncaught>>
     ELSE IF MobileMenu \in absent
     THEN \* line 141 throws on the null overlay
          /\ uncaught' = uncaught \cup {<<"click", 2>>}
          /\ UNCHANGED <<mobileMenu, lastClick>>
     ELSE /\ mobileMenu' = closeHandler(mobileMenu)
          /\ lastClick' = "close"
          /\ uncaught' = uncaught
  /\ UNCHANGED <<graphic, content, timer, listeners, menuListeners, absent>>

Next ==
  \/ animateElements
  \/ Timeout
  \/ \E i \in Idx : Mouseover(i)
  \/ toggleMenu
  \/ ClickOpen
  \/ ClickClose

Spec == Init /\ [][Next]_vars

\* The browser runs a pending timer's callback once its delay has passed.
FairSpec == Spec /\ WF_vars(Timeout)

\* The same scripts on a page that lacks some of the expected elements.
SpecDom == InitDom /\ [][Next]_vars

\* No page is open: the state of the page's variables at build time.
PageOff ==
  /\ absent = {}
  /\ uncaught = {}
  /\ graphic = GraphicInit(TRUE, FALSE)
  /\ content = ContentInit
  /\ mobileMenu = <<"mobile-menu">>
  /\ timer = "unset"
  /\ listeners = {}
  /\ menuListeners = {}
  /\ lastEvent = <<"load", 0>>
  /\ prevEvent = <<"load", 0>>
  /\ lastClick = "none"
  /\ nEvents = 0

\* The evaluation of the Brocfile by the build tool.
InitBuildTool == InitBroc /\ PageOff /\ ServerOff /\ GameOff
SpecBroc == InitBuildTool /\ [][NextBroc]_vars

\* The development server calling the init hook, then serving.
InitServeTool == InitServer /\ PageOff /\ BuildOff /\ GameOff
SpecServer == InitServeTool /\ [][NextServer]_vars

\* The dapp of the guide playing HighRoller against the opponent.
InitPlay == InitGame /\ PageOff /\ BuildOff /\ ServerOff
SpecGame == InitPlay /\ [][NextGame]_vars

----------------------------------------------------------------------------
\* Shorthands for the properties.

ActiveGraphics == {i \in Idx : graphic[i].state = "active"}
VisibleContents == {i \in Idx : content[i].state = "visible"}
ActiveClassed == {i \in Idx : HasClass(graphic[i].el, "active")}
ShowClassed == {i \in Idx : HasClass(content[i].el, "content-show")}
HideClassed == {i \in Idx : HasClass(content[i].el, "content-hide")}

TypeOK ==
  /\ \A i \in Idx : graphic[i].state \in {"active", "inactive"}
  /\ \A i \in Idx : content[i].state \in {"initial", "visible", "hidden"}
  /\ timer \in {"unset", "pending", "fired"}
  /\ listeners \subseteq Idx
  /\ nEvents \in 0..MaxEvents

\* Content j carries the visible / hidden marker, or none at all.
VisibleMarked(j) ==
  /\ content[j].state = "visible"
  /\ HasClass(content[j].el, "content-show")
  /\ ~HasClass(content[j].el, "content-hide")
HiddenMarked(j) ==
  /\ content[j].state = "hidden"
  /\ HasClass(content[j].el, "content-hide")
  /\ ~HasClass(content[j].el, "content-show")
Unmarked(j) ==
  /\ content[j].state = "initial"
  /\ ~HasClass(content[j].el, "content-show")
  /\ ~HasClass(content[j].el, "content-hide")

\* The step is the dispatch of a mouseover on graphic i / of a menu click.
MouseoverStep(i) == nEvents' = nEvents + 1 /\ lastEvent' = <<"mouseover", i>>
ClickStep(b) == nEvents' = nEvents + 1 /\ lastEvent' = <<"click", b>>
TimeoutStep == timer = "pending" /\ timer' = "fired"

----------------------------------------------------------------------------
\* C1 (as stated): once the delayed callback has run, exactly one content
\* carries the visible marker and the other two carry the hidden marker.
C1_OneVisibleOthersHidden ==
  timer = "fired" =>
    \E i \in Idx : /\ VisibleMarked(i)
                   /\ \A j \in Idx \ {i} : HiddenMarked(j)

\* C1 (amended): once the delayed callback has run, exactly one content
\* carries the visible marker; each of the other two carries the hidden
\* marker or, if it was never shown, no marker at all (state 'initial').
C1_OneVisibleOthersHiddenOrInitial ==
  timer = "fired" =>
    \E i \in Idx : /\ VisibleMarked(i)
                   /\ \A j \in Idx \ {i} : HiddenMarked(j) \/ Unmarked(j)

C1_Witness ==
  /\ timer = "fired"
  /\ lastEvent = <<"mouseover", 2>>
  /\ VisibleMarked(2) /\ HiddenMarked(1) /\ Unmarked(3)

\* C2: after a mouseover on graphic i with the listeners bound, graphic i is
\* the only graphic element whose classList contains 'active'.
C2_HoveredGraphicSoleActiveClass ==
  \A i \in Idx :
    (lastEvent = <<"mouseover", i>> /\ i \in listeners) => ActiveClassed = {i}

\* C3 (as stated): a mouseover on graphic 2 or 3 while the timer is pending
\* changes the selection to that graphic and its content.
C3_EarlyHoverChangesSelection ==
  [][\A i \in {2, 3} :
       (timer = "pending" /\ MouseoverStep(i)) =>
          (content'[i].state = "visible" /\ graphic'[i].state = "active")]_vars

\* C3 (amended): a mouseover before the timer has fired changes no graphic and
\* no content (no listener is bound yet), so when the delayed callback fires
\* the objects still have their load-time state, there is no hover selection
\* to override, and the callback makes content 1 the visible one.
C3_EarlyHoverChangesNothing ==
  [][/\ \A i \in Idx :
          (timer # "fired" /\ MouseoverStep(i)) => UNCHANGED <<graphic, content>>
     /\ TimeoutStep =>
          /\ content = ContentInit
          /\ ActiveGraphics = {1}
          /\ VisibleContents' = {1}]_vars

C3_Witness ==
  /\ timer = "fired"
  /\ lastEvent = <<"timeout", 0>>
  /\ prevEvent = <<"mouseover", 2>>
  /\ VisibleContents = {1}

\* C4: in every reachable state at most one graphic has state 'active' and at
\* most one content has state 'visible'.
C4_AtMostOneActiveAndVisible ==
  /\ Cardinality(ActiveGraphics) <= 1
  /\ Cardinality(VisibleContents) <= 1

C4_Witness ==
  /\ lastEvent = <<"mouseover", 3>>
  /\ prevEvent = <<"mouseover", 2>>
  /\ ActiveGraphics = {3}
  /\ VisibleContents = {3}
  /\ content[1].state = "hidden" /\ content[2].state = "hidden"

\* C5: once the delayed callback has run, exactly one graphic is active,
\* exactly one content is visible, and they have the same index.
C5_ActiveAndVisibleInSync ==
  timer = "fired" =>
    \E i \in Idx : ActiveGraphics = {i} /\ VisibleContents = {i}

C5_Witness ==
  /\ timer = "fired"
  /\ lastEvent = <<"mouseover", 1>>
  /\ prevEvent = <<"mouseover", 3>>
  /\ ActiveGraphics = {1} /\ VisibleContents = {1}
  /\ content[3].state = "hidden"

\* C6: with both click listeners bound, the overlay carries 'mobile-menu--open'
\* exactly when the click handled last was on the open button; a click on open
\* while open, or on close while closed, leaves the class list unchanged, and
\* nothing but a click changes it.
C6_MenuFollowsLastClick ==
  /\ [](lastClick # "none" =>
          (HasClass(mobileMenu, "mobile-menu--open") <=> lastClick = "open"))
  /\ [][/\ (menuListeners # {} /\ ClickStep(1)) =>
             /\ lastClick' = "open"
             /\ HasClass(mobileMenu, "mobile-menu--open") => mobileMenu' = mobileMenu
        /\ (menuListeners # {} /\ ClickStep(2)) =>
             /\ lastClick' = "close"
             /\ ~HasClass(mobileMenu, "mobile-menu--open") => mobileMenu' = mobileMenu
        /\ ~(ClickStep(1) \/ ClickStep(2)) => UNCHANGED <<mobileMenu, lastClick>>]_vars

C6_Witness ==
  /\ menuListeners = {"menuBtn", "closeBtn"}
  /\ prevEvent = <<"click", 1>>
  /\ lastEvent = <<"click", 1>>
  /\ lastClick = "open"
  /\ mobileMenu = <<"mobile-menu", "mobile-menu--open">>

\* C7: with the listeners bound, a mouseover on graphic i makes content i
\* visible, hides every other content that was visible, makes graphic i's
\* state 'active', makes every other active graphic inactive and strips its
\* 'active' class, and leaves every other content and graphic unchanged.
C7_MouseoverEffect ==
  [][\A i \in Idx :
       (i \in listeners /\ MouseoverStep(i)) =>
          /\ content'[i].state = "visible"
          /\ graphic'[i].state = "active"
          /\ \A j \in Idx \ {i} :
               /\ content[j].state = "visible" => content'[j].state = "hidden"
               /\ content[j].state # "visible" => content'[j] = content[j]
               /\ graphic[j].state = "active" =>
                    /\ graphic'[j].state = "inactive"
                    /\ ~HasClass(graphic'[j].el, "active")
               /\ graphic[j].state # "active" => graphic'[j] = graphic[j]]_vars

C7_Witness ==
  /\ lastEvent = <<"mouseover", 2>>
  /\ prevEvent = <<"timeout", 0>>
  /\ content[2].state = "visible" /\ content[1].state = "hidden"
  /\ content[3].state = "initial"
  /\ graphic[2].state = "active" /\ graphic[1].state = "inactive"
  /\ ActiveClassed = {2}

\* C8: when the delayed callback fires with no prior user event it changes
\* only content 1 (initial -> visible, 'content-show' added): contents 2 and 3
\* stay initial with neither marker class, and the graphics are unchanged.
C8_TimeoutChangesOnlyContent1 ==
  [][(TimeoutStep /\ nEvents = 0) =>
        /\ content[1].state = "initial"
        /\ content'[1] = [el    |-> Append(content[1].el, "content-show"),
                          state |-> "visible"]
        /\ ~HasClass(content[1].el, "content-show")
        /\ \A j \in {2, 3} : content'[j] = content[j] /\ Unmarked(j)
        /\ graphic' = graphic]_vars

C8_Witness ==
  /\ lastEvent = <<"timeout", 0>>
  /\ nEvents = 0
  /\ VisibleMarked(1) /\ Unmarked(2) /\ Unmarked(3)
  /\ HasClass(graphic[1].el, "graphic1Load")

\* C9: with the listeners bound, a second consecutive mouseover on graphic i
\* changes no state field and no class list of any graphic or content.
C9_MouseoverIdempotent ==
  [][\A i \in Idx :
       (i \in listeners /\ lastEvent = <<"mouseover", i>> /\ MouseoverStep(i)) =>
          UNCHANGED <<graphic, content>>]_vars

C9_Witness ==
  /\ listeners = {1, 2, 3}
  /\ prevEvent = <<"mouseover", 2>>
  /\ lastEvent = <<"mouseover", 2>>
  /\ VisibleMarked(2) /\ ActiveClassed = {2}

\* C10: a content's state moves only initial -> visible, hidden -> visible or
\* visible -> hidden, and it becomes hidden only in a handler run whose
\* activation target is a sibling, which is visible when the handler returns.
C10_ContentTransitions ==
  [][\A j \in Idx :
       /\ \/ content'[j].state = content[j].state
          \/ <<content[j].state, content'[j].state>> \in
               {<<"initial", "visible">>, <<"hidden", "visible">>,
                <<"visible", "hidden">>}
       /\ (content[j].state # "hidden" /\ content'[j].state = "hidden") =>
            \E i \in Idx \ {j} :
               /\ content'[i].state = "visible"
               /\ \/ MouseoverStep(i)
                  \/ (TimeoutStep /\ i = 1)]_vars

C10_Witness ==
  /\ prevEvent = <<"mouseover", 2>>
  /\ lastEvent = <<"mouseover", 1>>
  /\ VisibleMarked(1) /\ HiddenMarked(2)

----------------------------------------------------------------------------
\* Shorthands for the later properties.

ToggleMenuStep == lastEvent' = <<"toggleMenu", 0>> /\ lastEvent # <<"toggleMenu", 0>>
UserEventStep == nEvents' = nEvents + 1
\* animateElements() and toggleMenu() have both been called.
BindDone ==
  /\ timer # "unset"
  /\ menuListeners # {} \/ <<"toggleMenu", 0>> \in uncaught
EmberEnv == processEnv["EMBER_ENV"]
HasHook(tree) == \E f \in tree : "livereload" \in Range(f.via)
AppJs == CHOOSE f \in exported : f.name = "app.js"

\* C11: the delayed transition cannot be cancelled: a pending timer stays
\* pending until it fires, no content is visible before the callback has run,
\* and, the timer being fair, content 1 eventually becomes visible.
C11_InitialTransitionHappens ==
  /\ [][timer = "pending" => timer' \in {"pending", "fired"}]_vars
  /\ [](timer # "fired" => VisibleContents = {})
  /\ (timer = "pending") ~> (content[1].state = "visible")

C11_Witness ==
  /\ timer = "fired"
  /\ lastEvent = <<"timeout", 0>>
  /\ prevEvent = <<"mouseover", 3>>
  /\ VisibleMarked(1)

\* C12 (as stated): on a page that lacks an expected element, once both
\* scripts have been called no timer callback and no user event is processed
\* before an uncaught error has been thrown.
C12_MissingElementFailsAtBind ==
  [][(absent # {} /\ BindDone /\ (TimeoutStep \/ UserEventStep)) =>
        uncaught # {}]_vars

\* C12 (amended): a missing element makes the script throw where it first
\* dereferences it, and nowhere else: toggleMenu() throws, at bind time, iff a
\* button is missing; a bound click handler throws iff the overlay is missing;
\* the timer callback throws iff content 1 or a graphic is missing; the bound
\* mouseover handler of graphic i throws iff content i is missing;
\* animateElements() never throws.
C12_MissingElementFailsAtDereference ==
  [][/\ uncaught \subseteq uncaught'
     /\ uncaught' \subseteq uncaught \cup {lastEvent'}
     /\ ToggleMenuStep =>
          (<<"toggleMenu", 0>> \in uncaught' <=>
             (MenuBtn \in absent \/ CloseBtn \in absent))
     /\ TimeoutStep =>
          (<<"timeout", 0>> \in uncaught' <=>
             (ContentEl(1) \in absent \/ \E k \in Idx : GraphicEl(k) \in absent))
     /\ \A b \in {1, 2} :
          (ClickStep(b) /\ (IF b = 1 THEN "menuBtn" ELSE "closeBtn") \in menuListeners)
            => (<<"click", b>> \in uncaught' <=> MobileMenu \in absent)
     /\ \A i \in Idx :
          (MouseoverStep(i) /\ i \in listeners) =>
             (<<"mouseover", i>> \in uncaught' <=> ContentEl(i) \in absent)
     /\ (timer = "unset" /\ timer' = "pending") => uncaught' = uncaught]_vars

C12_Witness ==
  /\ absent = {ContentEl(2)}
  /\ BindDone
  /\ timer = "fired"
  /\ uncaught = {<<"mouseover", 2>>}
  /\ content[2].state = "initial"

\* C13: for every value of EMBER_ENV the exported tree holds app.css, app.js
\* and the public files, and it holds tests.js iff EMBER_ENV is 'test'.
C13_ExportedFiles ==
  bpc = "exported" =>
    /\ {"app.css", "app.js"} \cup Names(PublicDir) \subseteq Names(exported)
    /\ "tests.js" \in Names(exported) <=> EmberEnv = "test"

C13_Witness ==
  /\ bpc = "exported"
  /\ EmberEnv = "test"
  /\ Names(exported) = {"index.html", "layer1.json", "app.css", "app.js", "tests.js"}

\* C14: the live-reload hook is in the public files tree, and so in the
\* exported tree, exactly when EMBER_ENV is not 'production'.
C14_LiveReloadUnlessProduction ==
  /\ bpc \in {"pubFiles", "scripts", "styles", "exported"} =>
       (HasHook(pubFiles) <=> EmberEnv # "production")
  /\ bpc = "exported" => (HasHook(exported) <=> EmberEnv # "production")

C14_Witness ==
  /\ bpc = "exported"
  /\ EmberEnv = "production"
  /\ ~HasHook(exported)
  /\ Names(PublicDir) \subseteq Names(exported)

\* C15 (as stated): for every variable V the .env file defines, each
\* occurrence of process.env.V in app/index.js is the value of V in app.js.
C15_EnvFileVariablesInlined ==
  bpc = "exported" =>
    \A n \in EnvNames : \A k \in DOMAIN appSource :
       (dotenvFile[n] # Undefined /\ appSource[k] = EnvRef(n)) =>
          AppJs.body[k] = JSONStringify(dotenvFile[n])

\* C15 (amended): the only occurrences the build inlines are those of
\* process.env.NODE_ENV, which become the JSON string of process.env.EMBER_ENV
\* (the text undefined when it is unset); every other process.env.V is left as
\* written.  A variable of the .env file reaches the bundle only as EMBER_ENV,
\* and only when the environment does not already set EMBER_ENV.
C15_OnlyNodeEnvInlined ==
  bpc = "exported" =>
    /\ \A k \in DOMAIN appSource :
         AppJs.body[k] = IF appSource[k] = "process.env.NODE_ENV"
                         THEN JSONStringify(EmberEnv)
                         ELSE appSource[k]
    /\ EmberEnv = IF shellEnv["EMBER_ENV"] # Undefined THEN shellEnv["EMBER_ENV"]
                  ELSE dotenvFile["EMBER_ENV"]

C15_Witness ==
  /\ bpc = "exported"
  /\ shellEnv["EMBER_ENV"] = Undefined
  /\ dotenvFile["EMBER_ENV"] = "production"
  /\ dotenvFile["API_URL"] = "https://api"
  /\ appSource = <<"process.env.NODE_ENV", "process.env.API_URL">>
  /\ AppJs.body = <<"\"production\"", "process.env.API_URL">>

\* C16 (as stated): when the read of the documentation file fails, the init
\* function does not complete normally.
C16_ReadErrorTerminatesInit ==
  fileRead = ReadError => spc # "returned"

\* C16 (amended): a read error is thrown from the asynchronous read callback,
\* uncaught, which is fatal to the process; by then the init function has
\* returned normally, so the error does not terminate the initialization.
C16_ReadErrorThrownAfterInit ==
  /\ crashed => (fileRead = ReadError /\ spc = "returned" /\ initResult = "undefined")
  /\ (fsRead = "done" /\ fileRead = ReadError) => crashed
  /\ fsRead = "done" => spc = "returned"

C16_Witness ==
  /\ crashed
  /\ fileRead = ReadError
  /\ spc = "returned"
  /\ nRequests > 0

\* C17: the converted HTML is written to the log exactly once when the read
\* has succeeded and never when it fails or before the callback; the init
\* function returns no value and the app gets no middleware but the logger.
C17_HtmlOnlyLogged ==
  /\ Cardinality(HtmlEntries) =
       (IF fsRead = "done" /\ fileRead # ReadError THEN 1 ELSE 0)
  /\ \A k \in HtmlEntries : consoleLog[k][2] = makeHtml(fileRead)
  /\ initResult \in {"none", "undefined"}
  /\ \A k \in DOMAIN appStack : appStack[k] = "morgan"

C17_Witness ==
  /\ fsRead = "done"
  /\ fileRead = <<"# Getting Started", "Counterfactual is a framework.">>
  /\ consoleLog = << <<"html", <<"<h1>Getting Started</h1>",
                                 "<p>Counterfactual is a framework.</p>">> >> >>
  /\ appStack = <<"morgan">>

\* C18: the mouseover listeners are registered only in the timer callback:
\* before it has run none is bound, and a mouseover on any graphic changes no
\* state field and no class of any graphic or content.
C18_NoListenerBeforeTimeout ==
  /\ [](timer # "fired" => listeners = {})
  /\ [][\A i \in Idx :
          (timer # "fired" /\ MouseoverStep(i)) =>
             (graphic' = graphic /\ content' = content /\ timer' = timer)]_vars

C18_Witness ==
  /\ timer = "pending"
  /\ lastEvent = <<"mouseover", 2>>
  /\ prevEvent = <<"mouseover", 1>>
  /\ listeners = {}
  /\ content = ContentInit

\* C19: content state and classes never diverge: a content is visible iff it
\* has 'content-show' and not 'content-hide', hidden iff it has 'content-hide'
\* and not 'content-show', initial iff it has neither.
C19_ContentStateMatchesClasses ==
  \A i \in Idx :
    /\ content[i].state = "visible" <=> (i \in ShowClassed /\ i \notin HideClassed)
    /\ content[i].state = "hidden" <=> (i \in HideClassed /\ i \notin ShowClassed)
    /\ content[i].state = "initial" <=> (i \notin ShowClassed /\ i \notin HideClassed)

C19_Witness ==
  /\ lastEvent = <<"mouseover", 1>>
  /\ prevEvent = <<"mouseover", 2>>
  /\ content[1] = [el |-> <<"tech-content__info__1", "content-show">>, state |-> "visible"]
  /\ content[2] = [el |-> <<"tech-content__info__2", "content-hide">>, state |-> "hidden"]
  /\ content[3].state = "initial"

\* C20: a graphic element carries 'active' only if its state is 'active', so
\* at most one graphic element carries 'active'.
C20_ActiveClassOnlyOnActiveGraphic ==
  /\ ActiveClassed \subseteq ActiveGraphics
  /\ Cardinality(ActiveClassed) <= 1

C20_Witness ==
  /\ lastEvent = <<"mouseover", 3>>
  /\ prevEvent = <<"mouseover", 2>>
  /\ ActiveClassed = {3}
  /\ graphic[2].state = "inactive" /\ graphic[1].state = "inactive"

----------------------------------------------------------------------------
\* Shorthands for the properties of the partial bindings.

OpenClassed == HasClass(mobileMenu, "mobile-menu--open")
Graphic1Load == HasClass(graphic[1].el, "graphic1Load")
\* The first graphic whose element the page lacks, or 4 when it has all three.
FirstAbsentGraphic ==
  IF \E k \in Idx : GraphicEl(k) \in absent
  THEN CHOOSE k \in Idx : /\ GraphicEl(k) \in absent
                          /\ \A j \in Idx : GraphicEl(j) \in absent => k <= j
  ELSE 4
ReadCallbackStep == fsRead = "pending" /\ fsRead' = "done"
AppCss == {f \in exported : f.name = "app.css"}

\* C21: toggleMenu() binds in order and aborts at the first missing button.
\* Without '.menu-btn' no handler is ever bound.  Without '.mobile-menu__close'
\* only, the call binds the open handler and throws; a click on the open
\* button then opens the menu and no later step closes it.  Without
\* '.mobile-menu' only, the call binds both handlers without an error and
\* every click on a bound button throws.
C21_ToggleMenuAbortsAtFirstMissingButton ==
  /\ [](MenuBtn \in absent => menuListeners = {})
  /\ []((CloseBtn \in absent /\ MenuBtn \notin absent) =>
          menuListeners \subseteq {"menuBtn"})
  /\ [][(ToggleMenuStep /\ MenuBtn \in absent) =>
          (menuListeners' = {} /\ <<"toggleMenu", 0>> \in uncaught')]_vars
  /\ [][(ToggleMenuStep /\ CloseBtn \in absent /\ MenuBtn \notin absent) =>
          (menuListeners' = {"menuBtn"} /\ <<"toggleMenu", 0>> \in uncaught')]_vars
  /\ [][(ClickStep(1) /\ "menuBtn" \in menuListeners /\ CloseBtn \in absent
           /\ MobileMenu \notin absent) => OpenClassed']_vars
  /\ [][(CloseBtn \in absent /\ OpenClassed) => OpenClassed']_vars
  /\ [][(ToggleMenuStep /\ MobileMenu \in absent /\ MenuBtn \notin absent
           /\ CloseBtn \notin absent) =>
          (menuListeners' = {"menuBtn", "closeBtn"} /\ uncaught' = uncaught)]_vars
  /\ [][\A b \in {1, 2} :
          (ClickStep(b) /\ menuListeners = {"menuBtn", "closeBtn"}
             /\ MobileMenu \in absent) =>
            (<<"click", b>> \in uncaught' /\ mobileMenu' = mobileMenu)]_vars

C21_Witness ==
  /\ absent = {CloseBtn}
  /\ menuListeners = {"menuBtn"}
  /\ <<"toggleMenu", 0>> \in uncaught
  /\ lastEvent = <<"click", 1>>
  /\ OpenClassed

\* C22: the timer callback stops at its first error.  Without the content-1
\* element it throws before it binds a listener, so no listener is ever bound
\* and no user event changes a graphic or a content.  With content 1 present
\* and graphic k the first missing graphic, the callback makes content 1
\* visible, binds exactly the listeners of the graphics before k, and throws.
C22_TimeoutStopsAtFirstError ==
  /\ [](ContentEl(1) \in absent => listeners = {})
  /\ [][(TimeoutStep /\ ContentEl(1) \in absent) =>
          (<<"timeout", 0>> \in uncaught' /\ content' = content)]_vars
  /\ [][(UserEventStep /\ ContentEl(1) \in absent) =>
          (graphic' = graphic /\ content' = content)]_vars
  /\ [][(TimeoutStep /\ ContentEl(1) \notin absent /\ FirstAbsentGraphic \in Idx) =>
          /\ VisibleMarked(1)'
          /\ listeners' = 1..(FirstAbsentGraphic - 1)
          /\ <<"timeout", 0>> \in uncaught']_vars
  /\ []((ContentEl(1) \notin absent /\ FirstAbsentGraphic \in Idx) =>
          listeners \subseteq 1..(FirstAbsentGraphic - 1))

C22_Witness ==
  /\ absent = {GraphicEl(2)}
  /\ timer = "fired"
  /\ <<"timeout", 0>> \in uncaught
  /\ listeners = {1}
  /\ VisibleMarked(1)
  /\ lastEvent = <<"mouseover", 3>>

\* C23: the timer callback leaves graphic 1's class list as it is; a
\* mouseover that a listener handles, on whichever graphic, leaves graphic 1
\* without 'graphic1Load'; nothing else removes the class and no step adds it.
C23_EntranceClassRemovedByFirstHover ==
  /\ [][TimeoutStep => graphic'[1].el = graphic[1].el]_vars
  /\ [][\A i \in Idx : (MouseoverStep(i) /\ i \in listeners) => ~Graphic1Load']_vars
  /\ [][(Graphic1Load /\ ~Graphic1Load') =>
          \E i \in Idx : MouseoverStep(i) /\ i \in listeners]_vars
  /\ [][~Graphic1Load => ~Graphic1Load']_vars

C23_Witness ==
  /\ timer = "fired"
  /\ prevEvent = <<"timeout", 0>>
  /\ lastEvent = <<"mouseover", 3>>
  /\ nEvents = 1
  /\ ~Graphic1Load
  /\ graphic[3].state = "active"

\* C24: the logging middleware is attached before the read is started, the
\* init function has returned before the read callback runs, and so the
\* middleware is attached whenever the callback logs HTML or throws.
C24_LoggerAttachedBeforeCallback ==
  /\ [](fsRead # "none" => "morgan" \in Range(appStack))
  /\ [][ReadCallbackStep =>
          (spc = "returned" /\ initResult # "none" /\ "morgan" \in Range(appStack))]_vars
  /\ []((crashed \/ HtmlEntries # {}) =>
          (spc = "returned" /\ "morgan" \in Range(appStack)))

C24_Witness ==
  /\ fsRead = "done"
  /\ crashed
  /\ spc = "returned"
  /\ appStack = <<"morgan">>
  /\ nRequests = 1

\* C25 (as stated): the stylesheet app.css is compiled, then prefixed, then
\* minified, each once, and so merged into the output tree.
C25_PrefixThenMinify ==
  /\ bpc \in {"styles", "exported"} =>
       styles = {[name |-> "app.css", via |-> <<"sass", "autoprefixer", "csso">>,
                  body |-> << >>]}
  /\ bpc = "exported" => AppCss = styles

\* C25 (amended): the stylesheet app.css is compiled, then minified, then
\* prefixed, each once, and so merged into the output tree.
C25_MinifyThenPrefix ==
  /\ bpc \in {"styles", "exported"} =>
       styles = {[name |-> "app.css", via |-> <<"sass", "csso", "autoprefixer">>,
                  body |-> << >>]}
  /\ bpc = "exported" => AppCss = styles

C25_Witness ==
  /\ bpc = "exported"
  /\ EmberEnv = "production"
  /\ \E f \in AppCss : Len(f.via) = 3

----------------------------------------------------------------------------
\* Shorthands for the properties of the game.

\* The action type the guide names for each stage, and the stage it leads to.
EnablingAction(stage) ==
  CASE stage = PRE_GAME -> START_GAME
    [] stage = COMMITTING_HASH -> COMMIT_TO_HASH
    [] stage = COMMITTING_NUM -> COMMIT_TO_NUM
    [] stage = REVEALING -> REVEAL
NextStage(stage) ==
  CASE stage = PRE_GAME -> COMMITTING_HASH
    [] stage = COMMITTING_HASH -> COMMITTING_NUM
    [] stage = COMMITTING_NUM -> REVEALING
    [] stage = REVEALING -> DONE
\* The app instance whose actions actionLog holds exists.
Playing == appInstance \in {"installed", "uninstalled"}
Accepted == Len(actionLog') = Len(actionLog) + 1
LastAccepted == actionLog'[Len(actionLog')]
\* The players who took the accepted actions, a player's consecutive actions
\* counted as one turn.
RECURSIVE Turns(_)
Turns(log) ==
  IF log = << >> THEN << >>
  ELSE LET before == Turns(SubSeq(log, 1, Len(log) - 1))
           by == log[Len(log)].by
       IN IF before # << >> /\ before[Len(before)] = by THEN before
          ELSE Append(before, by)
\* The step delivers the oldest pending updateState event.
Delivered == updateEvents # << >> /\ updateEvents' = Tail(updateEvents)

\* C26: in every stage but DONE applyAction accepts exactly the action type
\* the guide names for it and moves to the next stage of PRE_GAME ->
\* COMMITTING_HASH -> COMMITTING_NUM -> REVEALING -> DONE; every other action
\* reverts and leaves the state alone; in DONE every action reverts;
\* isStateTerminal holds exactly in DONE, which a game reaches with exactly
\* four accepted actions.
C26_StagesAdvanceInOrder ==
  /\ [](\A t \in ActionTypes, n \in PlayerNumbers :
          LET next == applyAction(appState, Action(t, n, HashZero))
          IN /\ next # {} <=> (appState.stage # DONE /\ t = EnablingAction(appState.stage))
             /\ \A st \in next : st.stage = NextStage(appState.stage))
  /\ [](isStateTerminal(appState) <=> appState.stage = DONE)
  /\ [](Playing => (appState.stage = DONE <=> Len(actionLog) = 4))
  /\ [][appState'.stage # appState.stage =>
          \/ appInstance = "none" /\ appState' = initialState
          \/ /\ appState.stage # DONE
             /\ appState'.stage = NextStage(appState.stage)
             /\ Accepted
             /\ LastAccepted.action.actionType = EnablingAction(appState.stage)]_vars
  /\ [][nReverts' # nReverts =>
          (appState' = appState /\ actionLog' = actionLog
             /\ updateEvents' = updateEvents)]_vars

C26_Witness ==
  /\ appState.stage = DONE
  /\ Len(actionLog) = 4
  /\ nReverts = 1
  /\ game = 2
  /\ appInstance = "installed"

\* C27: getTurnTaker names the second player in COMMITTING_NUM and the first
\* player in every other stage; every accepted action was taken by the player
\* getTurnTaker names for the stage it was applied in; and the turns of a
\* complete game are player 1, player 2, player 1.
C27_TurnOrder ==
  /\ \A stage \in Stages :
       getTurnTaker([appState EXCEPT !.stage = stage]) =
         (IF stage = COMMITTING_NUM THEN SECOND ELSE FIRST)
  /\ \A k \in DOMAIN actionLog :
       actionLog[k].by = getTurnTaker([initialState EXCEPT !.stage = actionLog[k].from])
  /\ (Playing /\ appState.stage = DONE) =>
       Turns(actionLog) = <<FIRST, SECOND, FIRST>>

C27_Witness ==
  /\ Playing
  /\ appState.stage = DONE
  /\ [k \in DOMAIN actionLog |-> actionLog[k].by] = <<FIRST, FIRST, SECOND, FIRST>>
  /\ updateEvents = << >>

C29_ClientActsOnReportedStage ==
  /\ []((appInstance = "uninstalled" \/ completePc # "idle") => doneSeen)
  /\ [][(appInstance' = "uninstalled" /\ appInstance # "uninstalled") =>
          (doneSeen /\ completePc = "executing")]_vars
  /\ [][(doneSeen' /\ ~doneSeen) => (Delivered /\ Head(updateEvents) = DONE)]_vars
  /\ [][(Accepted /\ LastAccepted.action.actionType = REVEAL) =>
          (Delivered \/ updateEvents' = Append(Tail(updateEvents), DONE))
            /\ updateEvents # << >> /\ Head(updateEvents) = REVEALING]_vars
  /\ [][(Delivered /\ Head(updateEvents) \notin {REVEALING, DONE}) =>
          UNCHANGED <<appState, actionLog, nReverts, appInstance, completePc,
                      typeErrors>>]_vars

C29_Witness ==
  /\ appInstance = "uninstalled"
  /\ doneSeen
  /\ typeErrors = 0
  /\ nReverts = 0
  /\ game = 1

====
